---- MODULE Spec2Model ----
(***************************************************************************)
(* A model of the TextAreaField component (the list-formatting multi-line  *)
(* text input), of the correction capability the application wires to it,  *)
(* and of the form's draft auto-save and PDF generation.  A text is a       *)
(* sequence of one-character strings.                                       *)
(***************************************************************************)
EXTENDS Integers, Sequences, FiniteSets, TLC

VARIABLES
    value,            \* the `value` prop: the field's buffer, owned by the parent form
    cursorPosition,   \* useState<number | null>: the pending cursor position
    isCorrecting,     \* useState(false): the "Correcting..." indicator
    calls,            \* the handleBlur invocations suspended at `await onAutoCorrect(...)`
    readOnly,         \* the `readOnly` prop
    onAutoCorrect,    \* the `onAutoCorrect` prop: which capability, if any, is configured
    focused,          \* whether the textarea has the input focus
    edits,            \* number of change events delivered so far
    enters,           \* number of Enter keystrokes handled so far
    blurs,            \* number of blur events handled so far
    settles,          \* number of correction calls that resolved or failed so far
    budget,           \* number of user events the run delivers
    last,             \* the handler that ran last: the buffer it found, what it captured
    isReadOnly,       \* App: useState(false), set from the URL when the form mounts
    changes,          \* App: number of setFormData calls so far (the identity of formData)
    stored,           \* localStorage: the formData written last, Null when there is no draft
    timer,            \* minutes since the auto-save effect called setInterval
    sinceWrite,       \* minutes since handleSaveDraft last ran (since the mount before that)
    attachments,      \* formData's files, in the order handleDownloadPdf embeds them
    isGeneratingPdf,  \* App: useState(false)
    pdf               \* the run of handleDownloadPdf: where it is suspended

\* The state of the form around the fields.
appVars == <<isReadOnly, changes, stored, timer, sinceWrite, attachments,
             isGeneratingPdf, pdf>>

\* The state of one field.
fieldVars == <<value, cursorPosition, isCorrecting, calls, readOnly, onAutoCorrect,
               focused, edits, enters, blurs, settles, budget, last>>

vars == <<value, cursorPosition, isCorrecting, calls, readOnly, onAutoCorrect,
          focused, edits, enters, blurs, settles, budget, last, appVars>>

----------------------------------------------------------------------------
(* Bounds of the model. *)

MaxLen == 3       \* longest text enumerated exhaustively / reachable by typing
MaxEvents == 3    \* change, Enter and blur events per run of the field
MaxEnters == 1    \* Enter keystrokes among them
MaxFnEvents == 1  \* Enter and blur events applied to an enumerated text
MaxChanges == 2   \* changes of the form data per run of the form
MaxMinutes == 3   \* longest time without a write that a run of the form follows
MaxFiles == 1     \* files attached to the form

----------------------------------------------------------------------------
(* Characters and strings. *)

NL == "\n"
Null == -1
Digits == {"0", "1", "2", "3", "4", "5", "6", "7", "8", "9"}
DigitChars == <<"0", "1", "2", "3", "4", "5", "6", "7", "8", "9">>
WhiteSpace == {" ", "\t", "\r", "\n"}

\* Number of leading elements of s that belong to the class S.
RECURSIVE leading(_, _)
leading(s, S) ==
    IF s # <<>> /\ Head(s) \in S THEN 1 + leading(Tail(s), S) ELSE 0

\* Number of trailing elements of s that belong to the class S.
RECURSIVE trailing(_, _)
trailing(s, S) ==
    IF s # <<>> /\ s[Len(s)] \in S
    THEN 1 + trailing(SubSeq(s, 1, Len(s) - 1), S)
    ELSE 0

\* String.prototype.trim
trim(s) ==
    LET a == leading(s, WhiteSpace)
        t == SubSeq(s, a + 1, Len(s))
    IN  SubSeq(t, 1, Len(t) - trailing(t, WhiteSpace))

\* String.prototype.substring(from, to), 0-based, `to` exclusive
substring(s, from, to) == SubSeq(s, from + 1, to)

\* Index of the first line break of s, 0 when it has none.
RECURSIVE indexOfNL(_)
indexOfNL(s) ==
    IF s = <<>> THEN 0
    ELSE IF Head(s) = NL THEN 1
    ELSE LET r == indexOfNL(Tail(s)) IN IF r = 0 THEN 0 ELSE r + 1

\* text.split('\n'): the empty text has one (empty) line.
RECURSIVE split(_)
split(text) ==
    LET i == indexOfNL(text) IN
    IF i = 0 THEN <<text>>
    ELSE <<SubSeq(text, 1, i - 1)>> \o split(SubSeq(text, i + 1, Len(text)))

\* lines.join('\n')
RECURSIVE join(_)
join(lines) ==
    IF lines = <<>> THEN <<>>
    ELSE IF Len(lines) = 1 THEN lines[1]
    ELSE lines[1] \o <<NL>> \o join(Tail(lines))

\* The decimal numeral of n >= 0, as the template literal `${counter}` prints it.
RECURSIVE toString(_)
toString(n) ==
    IF n < 10 THEN <<DigitChars[n + 1]>>
    ELSE toString(n \div 10) \o <<DigitChars[(n % 10) + 1]>>

----------------------------------------------------------------------------
(* reformatTextToNumberedList *)

\* markerMatch for a pattern that lacks the trailing \s*
markerMatchNoSpace(s) ==
    LET d == leading(s, Digits) IN
    IF d > 0 /\ Len(s) > d /\ s[d + 1] = "." THEN d + 1
    ELSE IF s # <<>> /\ s[1] \in {"*", "-"} THEN 1
    ELSE 0

\* Length of the match of /^(\d+\.|\*|-)\s*/ in s, 0 when there is none.
markerMatch(s) ==
    LET d == leading(s, Digits) IN
    IF d > 0 /\ Len(s) > d /\ s[d + 1] = "."
    THEN d + 1 + leading(SubSeq(s, d + 2, Len(s)), WhiteSpace)
    ELSE IF s # <<>> /\ s[1] \in {"*", "-"}
    THEN 1 + leading(Tail(s), WhiteSpace)
    ELSE 0

\* line.trim().replace(/^(\d+\.|\*|-)\s*/, '')
lineContent(line) ==
    LET t == trim(line) IN SubSeq(t, markerMatch(t) + 1, Len(t))

\* `${counter}. ${content}`
numberedLine(counter, content) == toString(counter) \o <<".", " ">> \o content

\* numberedLines that leaves blank lines out of the result
RECURSIVE numberedLinesDropBlank(_, _)
numberedLinesDropBlank(lines, counter) ==
    IF lines = <<>> THEN <<>>
    ELSE IF Len(trim(Head(lines))) = 0
    THEN numberedLinesDropBlank(Tail(lines), counter)
    ELSE <<numberedLine(counter, lineContent(Head(lines)))>>
             \o numberedLinesDropBlank(Tail(lines), counter + 1)

\* numberedLines that returns a blank line as it is
RECURSIVE numberedLinesKeepBlank(_, _)
numberedLinesKeepBlank(lines, counter) ==
    IF lines = <<>> THEN <<>>
    ELSE IF Len(trim(Head(lines))) = 0
    THEN <<Head(lines)>> \o numberedLinesKeepBlank(Tail(lines), counter)
    ELSE <<numberedLine(counter, lineContent(Head(lines)))>>
             \o numberedLinesKeepBlank(Tail(lines), counter + 1)

\* numberedLines with a counter that blank lines advance too
RECURSIVE numberedLinesCountBlank(_, _)
numberedLinesCountBlank(lines, counter) ==
    IF lines = <<>> THEN <<>>
    ELSE IF Len(trim(Head(lines))) = 0
    THEN <<<<>>>> \o numberedLinesCountBlank(Tail(lines), counter + 1)
    ELSE <<numberedLine(counter, lineContent(Head(lines)))>>
             \o numberedLinesCountBlank(Tail(lines), counter + 1)

\* lines.map(...) with the running counter
RECURSIVE numberedLines(_, _)
numberedLines(lines, counter) ==
    IF lines = <<>> THEN <<>>
    ELSE IF Len(trim(Head(lines))) = 0
    THEN <<<<>>>> \o numberedLines(Tail(lines), counter)
    ELSE <<numberedLine(counter, lineContent(Head(lines)))>>
             \o numberedLines(Tail(lines), counter + 1)

reformatTextToNumberedList(text) ==
    IF text = <<>> THEN <<>> ELSE join(numberedLines(split(text), 1))

----------------------------------------------------------------------------
(* handleKeyDown: the Enter branch, as two functions of the textarea's      *)
(* value and selectionStart.                                                *)

\* prefixMatch for a pattern that stops after the dot
prefixMatchNoSpace(s) ==
    LET d == leading(s, Digits) IN
    IF d > 0 /\ Len(s) > d /\ s[d + 1] = "." THEN d + 1 ELSE 0

\* prefixMatch that takes every prefix to be three characters long ("N. ")
prefixMatchThreeChars(s) ==
    LET d == leading(s, Digits) IN
    IF d > 0 /\ Len(s) > d /\ s[d + 1] = "." THEN 3 ELSE 0

\* Length of the match of /^\d+\.\s*/ in s, 0 when there is none.
prefixMatch(s) ==
    LET d == leading(s, Digits) IN
    IF d > 0 /\ Len(s) > d /\ s[d + 1] = "."
    THEN d + 1 + leading(SubSeq(s, d + 2, Len(s)), WhiteSpace)
    ELSE 0

\* currentLineIndex that counts the lines before the cursor, not the breaks
currentLineIndexCountsLines(currentValue, selectionStart) ==
    Len(split(substring(currentValue, 0, selectionStart)))

\* currentLineIndex: the number of line breaks before the cursor
currentLineIndex(currentValue, selectionStart) ==
    Len(split(substring(currentValue, 0, selectionStart))) - 1

\* textWithNewline that puts the line break at the end of the text
textWithNewlineAtEnd(currentValue, selectionStart) ==
    currentValue \o <<NL>>

\* textWithNewline
textWithNewline(currentValue, selectionStart) ==
    substring(currentValue, 0, selectionStart) \o <<NL>>
        \o substring(currentValue, selectionStart, Len(currentValue))

\* finalValue
finalValue(currentValue, selectionStart) ==
    reformatTextToNumberedList(textWithNewline(currentValue, selectionStart))

\* lineStart that forgets the line-break characters
RECURSIVE lineStartNoBreaks(_, _)
lineStartNoBreaks(lines, targetLineIndex) ==
    IF targetLineIndex = 0 THEN 0
    ELSE Len(Head(lines)) + lineStartNoBreaks(Tail(lines), targetLineIndex - 1)

\* the for loop: the lengths of the lines before the target line, plus 1 each
RECURSIVE lineStart(_, _)
lineStart(lines, targetLineIndex) ==
    IF targetLineIndex = 0 THEN 0
    ELSE Len(Head(lines)) + 1 + lineStart(Tail(lines), targetLineIndex - 1)

\* TRUE when the handler takes the fallback branch (no line at the target index)
usesFallback(currentValue, selectionStart) ==
    ~ (Len(split(finalValue(currentValue, selectionStart)))
         > currentLineIndex(currentValue, selectionStart) + 1)

\* newCursorPos computed from the offset in the text before the rewrite
newCursorPosStale(currentValue, selectionStart) ==
    LET finalLines == split(finalValue(currentValue, selectionStart))
        targetLineIndex == currentLineIndex(currentValue, selectionStart) + 1
    IN  selectionStart + 1
            + (IF Len(finalLines) > targetLineIndex
               THEN prefixMatch(finalLines[targetLineIndex + 1]) ELSE 0)

\* the argument of setCursorPosition
newCursorPos(currentValue, selectionStart) ==
    LET final == finalValue(currentValue, selectionStart)
        finalLines == split(final)
        targetLineIndex == currentLineIndex(currentValue, selectionStart) + 1
    IN  IF Len(finalLines) > targetLineIndex
        THEN lineStart(finalLines, targetLineIndex)
                 + prefixMatch(finalLines[targetLineIndex + 1])
        ELSE Len(final)

----------------------------------------------------------------------------
(* The correction capability.                                               *)

Undefined == "undefined"                 \* no onAutoCorrect prop
Wired == "correctGrammarAndSpelling"     \* the capability the application passes
Injected == "injected"                   \* any other (text) => Promise<string>

\* autoCorrectProp, for a field the form passes it to
autoCorrectProp(readOnlyMode) == IF readOnlyMode THEN Undefined ELSE Wired

\* What the provider's generateContent call can do: throw, or answer with a
\* response whose text is t (an absent text is the empty text: both are falsy).
Throws == [kind |-> "throw", text |-> <<>>]
Answers(t) == [kind |-> "text", text |-> t]

\* correctGrammarAndSpelling that resolves with no text when the provider throws
correctGrammarAndSpellingEmptyOnThrow(text, outcome) ==
    IF Len(trim(text)) = 0 THEN text
    ELSE IF outcome.kind = "throw" THEN <<>>
    ELSE IF trim(outcome.text) # <<>> THEN trim(outcome.text)
    ELSE text

\* correctGrammarAndSpelling(text): the text its promise resolves with
correctGrammarAndSpelling(text, outcome) ==
    IF Len(trim(text)) = 0 THEN text
    ELSE IF outcome.kind = "throw" THEN text
    ELSE IF trim(outcome.text) # <<>> THEN trim(outcome.text)
    ELSE text

----------------------------------------------------------------------------
(* Inputs.                                                                  *)

Alphabet == {"a", " ", NL, "1", ".", "*", "-"}   \* characters of the enumerated texts
Keys == {"a", NL}                \* characters a change event inserts

\* All texts over Alphabet of length n, and of length at most n.
RECURSIVE TextsOfLen(_)
TextsOfLen(n) ==
    IF n = 0 THEN {<<>>}
    ELSE {<<c>> \o t : c \in Alphabet, t \in TextsOfLen(n - 1)}

TextsUpTo(n) == UNION {TextsOfLen(k) : k \in 0..n}

\* The numbered list whose items have the given contents.
NumberedList(contents) ==
    join([k \in 1..Len(contents) |-> numberedLine(k, contents[k])])

\* Nine-item lists, by the content of their ninth item.
NineItems(ninth) ==
    NumberedList(<<<<"a">>, <<"a">>, <<"a">>, <<"a">>, <<"a">>, <<"a">>, <<"a">>,
                   <<"a">>, ninth>>)

NineItemLists ==
    {NineItems(c) : c \in {<<>>, <<"a">>, <<"a", "b">>, <<"a", " ", "b">>}}

\* Texts the specification and the component's documentation name.
ExampleTexts ==
    { <<"*", " ", "a", NL, NL, "b", NL, "3", ".", " ", "c">>,
      <<"*", " ", "1", ".", " ", "a">>,
      <<"1", ".", " ", "a", NL, "2", ".", " ", "b">>,
      <<"-">>,
      <<"3", ".", "1", "4">>,
      <<" ", "a", " ", NL, "\t", NL, "1", "2", ".", " ", "b">> }

\* Buffers a field can start from (a restored draft holds any text).
SeedTexts ==
    { <<>>, <<"a">>, <<"1", ".", " ", "a">>, <<"a", NL, "b">>,
      <<"1", ".", " ", "a", NL, "2", ".", " ", "b">> }

\* Texts a correction capability can return, besides echoing what it was given.
CorrectionTexts ==
    { <<" ">>, <<"b">>, <<"1", ".", " ", "b", NL>> }

\* The values a change event can give the buffer: one character typed or deleted.
Insertions(text) ==
    IF Len(text) >= MaxLen THEN {}
    ELSE {substring(text, 0, p) \o <<c>> \o substring(text, p, Len(text)) :
              p \in 0..Len(text), c \in Keys}

Deletions(text) ==
    {substring(text, 0, p - 1) \o substring(text, p, Len(text)) : p \in 1..Len(text)}

----------------------------------------------------------------------------
(* The state machine.                                                       *)

Event(op) ==
    [op |-> op, before |-> value, currentValue |-> <<>>, selectionStart |-> Null,
     formattedValue |-> <<>>, correctedValue |-> <<>>, invoked |-> FALSE]

\* The state after construction, for every field of the form: editable or
\* read-only, with the capability the form passes or with none.
InitField ==
    /\ cursorPosition = Null
    /\ isCorrecting = FALSE
    /\ calls = <<>>
    /\ focused = FALSE
    /\ edits = 0
    /\ enters = 0
    /\ blurs = 0
    /\ settles = 0
    /\ last = Event("init")

\* No run of handleDownloadPdf.
NoPdf == [pc |-> "idle", files |-> <<>>, index |-> 0, errorFields |-> 0,
          image |-> "none"]

\* The form around a field whose events the model follows: nothing else happens.
InitForm ==
    /\ isReadOnly = readOnly
    /\ changes = 0
    /\ stored = Null
    /\ timer = 0
    /\ sinceWrite = 0
    /\ attachments = <<>>
    /\ isGeneratingPdf = FALSE
    /\ pdf = NoPdf

Init ==
    /\ value \in SeedTexts
    /\ readOnly \in BOOLEAN
    /\ onAutoCorrect \in
           IF readOnly THEN {Undefined, autoCorrectProp(readOnly)}
           ELSE {Undefined, autoCorrectProp(readOnly), Injected}
    /\ budget = MaxEvents
    /\ InitField
    /\ InitForm

\* The texts of the pure-function checks: every short text, and the named ones,
\* in an editable field with no capability.
InitFn ==
    /\ value \in TextsUpTo(MaxLen) \cup ExampleTexts \cup NineItemLists
    /\ readOnly = FALSE
    /\ onAutoCorrect = Undefined
    /\ budget = MaxFnEvents
    /\ InitField
    /\ InitForm

\* The user's events are counted, and a run has at most `budget` of them.
moreEvents == edits + enters + blurs < budget

\* The user puts the focus in the textarea.
Focus ==
    /\ ~focused
    /\ cursorPosition = Null
    /\ focused' = TRUE
    /\ last' = Event("focus")
    /\ UNCHANGED <<value, cursorPosition, isCorrecting, calls, readOnly, budget, appVars, settles,
                   onAutoCorrect, edits, enters, blurs>>

\* onChange: the parent's handleChange stores the textarea's new value.
HandleChange ==
    /\ focused /\ ~readOnly
    /\ cursorPosition = Null
    /\ moreEvents
    /\ \E newValue \in Insertions(value) \cup Deletions(value) :
           value' = newValue
    /\ edits' = edits + 1
    /\ last' = Event("handleChange")
    /\ UNCHANGED <<cursorPosition, isCorrecting, calls, readOnly, budget, appVars, settles, onAutoCorrect,
                   focused, blurs, enters>>

\* attached of a textarea that gets its handlers when it is read-only too
attachedAlways == TRUE

\* onKeyDown={!readOnly ? handleKeyDown : undefined}, and onBlur likewise
attached == ~readOnly

\* Enter in a textarea without a keydown handler: a read-only textarea
\* inserts nothing.
KeyDownUnhandled ==
    /\ focused /\ ~attached
    /\ cursorPosition = Null
    /\ moreEvents
    /\ enters' = enters + 1
    /\ last' = [Event("keydown") EXCEPT !.currentValue = value]
    /\ UNCHANGED <<value, cursorPosition, isCorrecting, calls, readOnly, budget, appVars, settles,
                   onAutoCorrect, focused, edits, blurs>>

\* The focus leaves a textarea without a blur handler.
BlurUnhandled ==
    /\ focused /\ ~attached
    /\ cursorPosition = Null
    /\ moreEvents
    /\ focused' = FALSE
    /\ blurs' = blurs + 1
    /\ last' = [Event("blur") EXCEPT !.currentValue = value]
    /\ UNCHANGED <<value, cursorPosition, isCorrecting, calls, readOnly, budget, appVars, settles,
                   onAutoCorrect, edits, enters>>

\* handleKeyDown with e.key === 'Enter' and the cursor at selectionStart.
HandleKeyDown ==
    /\ focused /\ attached
    /\ cursorPosition = Null
    /\ moreEvents /\ enters < MaxEnters
    /\ \E selectionStart \in 0..Len(value) :
           /\ cursorPosition' = newCursorPos(value, selectionStart)
           /\ value' = finalValue(value, selectionStart)
           /\ last' = [Event("handleKeyDown") EXCEPT
                          !.currentValue = value,
                          !.selectionStart = selectionStart]
    /\ enters' = enters + 1
    /\ UNCHANGED <<isCorrecting, calls, readOnly, budget, appVars, settles, onAutoCorrect, focused, edits,
                   blurs>>

\* LayoutEffect that does not clear cursorPosition
LayoutEffectKeepsCursor ==
    /\ cursorPosition # Null
    /\ focused' = TRUE
    /\ cursorPosition' = cursorPosition
    /\ last' = [Event("layoutEffect") EXCEPT !.selectionStart = cursorPosition]
    /\ UNCHANGED <<value, isCorrecting, calls, readOnly, budget, appVars, settles, onAutoCorrect, edits,
                   enters, blurs>>

\* The layout effect of the render that follows setCursorPosition.
LayoutEffect ==
    /\ cursorPosition # Null
    /\ focused' = TRUE
    /\ cursorPosition' = Null
    /\ last' = [Event("layoutEffect") EXCEPT !.selectionStart = cursorPosition]
    /\ UNCHANGED <<value, isCorrecting, calls, readOnly, budget, appVars, settles, onAutoCorrect, edits,
                   enters, blurs>>

\* correctionArgument of a handler that passes the raw buffer
correctionArgumentRaw(currentValue, formattedValue) == currentValue

\* onAutoCorrect(formattedValue): the text the capability is called with
correctionArgument(currentValue, formattedValue) == formattedValue

\* awaitingValue of a handler that commits the formatted text before it awaits
awaitingValueFormatted(formattedValue) == formattedValue

\* The buffer while handleBlur awaits: nothing is committed before the await.
awaitingValue(formattedValue) == value

\* startsCorrection that calls the capability for a blank text too
startsCorrectionAnyText(formattedValue) ==
    onAutoCorrect # Undefined /\ ~readOnly

\* startsCorrection that does not test whether a capability is configured
startsCorrectionUnchecked(formattedValue) ==
    ~readOnly /\ Len(trim(formattedValue)) > 0

\* Whether handleBlur calls the capability for the text it formatted.
startsCorrection(formattedValue) ==
    onAutoCorrect # Undefined /\ ~readOnly /\ Len(trim(formattedValue)) > 0

\* handleBlur, up to its await (or to its end when it does not await).
HandleBlur ==
    /\ focused /\ attached
    /\ cursorPosition = Null
    /\ moreEvents
    /\ focused' = FALSE
    /\ blurs' = blurs + 1
    /\ LET currentValue == value
           formattedValue == reformatTextToNumberedList(currentValue)
       IN  IF startsCorrection(formattedValue)
           THEN /\ isCorrecting' = TRUE
                /\ calls' = Append(calls,
                       [currentValue |-> currentValue,
                        formattedValue |-> formattedValue,
                        text |-> correctionArgument(currentValue, formattedValue)])
                /\ value' = awaitingValue(formattedValue)
                /\ last' = [Event("handleBlur") EXCEPT
                               !.currentValue = currentValue,
                               !.formattedValue = formattedValue,
                               !.invoked = TRUE]
           ELSE /\ value' = IF currentValue # formattedValue
                            THEN formattedValue ELSE value
                /\ last' = [Event("handleBlur") EXCEPT
                               !.currentValue = currentValue,
                               !.formattedValue = formattedValue]
                /\ UNCHANGED <<isCorrecting, calls>>
    /\ UNCHANGED <<cursorPosition, readOnly, budget, appVars, settles, onAutoCorrect, edits, enters>>

\* afterFinally of a handler that leaves the flag as it is
afterFinallyKept == isCorrecting

\* finally: setIsCorrecting(false)
afterFinally == FALSE

\* calls without its i-th element
Settled(i) == SubSeq(calls, 1, i - 1) \o SubSeq(calls, i + 1, Len(calls))

\* resolvedValue that drops a result when the buffer changed since the blur
resolvedValueDiscardsStale(call, correctedValue) ==
    IF value = call.currentValue /\ call.currentValue # correctedValue
    THEN correctedValue ELSE value

\* resolvedValue that reformats the returned text before committing it
resolvedValueReformatted(call, correctedValue) ==
    IF call.currentValue # correctedValue
    THEN reformatTextToNumberedList(correctedValue) ELSE value

\* handleBlur after its await, when the promise resolved with correctedValue.
resolvedValue(call, correctedValue) ==
    IF call.currentValue # correctedValue THEN correctedValue ELSE value

Continue(i, correctedValue) ==
    /\ value' = resolvedValue(calls[i], correctedValue)
    /\ isCorrecting' = afterFinally
    /\ calls' = Settled(i)
    /\ settles' = settles + 1
    /\ last' = [Event("resolve") EXCEPT
                   !.currentValue = calls[i].currentValue,
                   !.formattedValue = calls[i].formattedValue,
                   !.correctedValue = correctedValue]
    /\ UNCHANGED <<cursorPosition, readOnly, budget, appVars, onAutoCorrect, focused, edits,
                   enters, blurs>>

\* A call to correctGrammarAndSpelling settles: it always resolves.
ResolveWired ==
    /\ onAutoCorrect = Wired
    /\ cursorPosition = Null
    /\ \E i \in 1..Len(calls) :
       \E outcome \in {Throws} \cup
                      {Answers(t) : t \in CorrectionTexts \cup
                                          {calls[i].text, calls[i].currentValue}} :
           Continue(i, correctGrammarAndSpelling(calls[i].text, outcome))

\* A call to another capability resolves.
ResolveInjected ==
    /\ onAutoCorrect = Injected
    /\ cursorPosition = Null
    /\ \E i \in 1..Len(calls) :
       \E correctedValue \in CorrectionTexts \cup {calls[i].text,
                                                   calls[i].currentValue} :
           Continue(i, correctedValue)

\* callsAfterFailure of a catch branch that calls the capability again
callsAfterFailureRetried(i) == Append(Settled(i), calls[i])

\* The suspended calls once the i-th has failed: the catch branch starts no other.
callsAfterFailure(i) == Settled(i)

\* rejectedValue that commits nothing on failure
rejectedValueNoFallback(call) == value

\* handleBlur after its await, when the promise rejected.
rejectedValue(call) ==
    IF call.currentValue # call.formattedValue THEN call.formattedValue ELSE value

\* A call to another capability fails.
Reject ==
    /\ onAutoCorrect = Injected
    /\ cursorPosition = Null
    /\ \E i \in 1..Len(calls) :
           /\ value' = rejectedValue(calls[i])
           /\ isCorrecting' = afterFinally
           /\ calls' = callsAfterFailure(i)
           /\ last' = [Event("reject") EXCEPT
                          !.currentValue = calls[i].currentValue,
                          !.formattedValue = calls[i].formattedValue]
    /\ settles' = settles + 1
    /\ UNCHANGED <<cursorPosition, readOnly, budget, appVars, onAutoCorrect, focused, edits,
                   enters, blurs>>

Next ==
    \/ Focus
    \/ HandleChange
    \/ HandleKeyDown
    \/ KeyDownUnhandled
    \/ LayoutEffect
    \/ HandleBlur
    \/ BlurUnhandled
    \/ ResolveWired
    \/ ResolveInjected
    \/ Reject

Spec == Init /\ [][Next]_vars

\* The synchronous handlers alone, over the enumerated texts.
NextFn ==
    \/ Focus
    \/ HandleKeyDown
    \/ LayoutEffect
    \/ HandleBlur

SpecFn == InitFn /\ [][NextFn]_vars

\* The field when every call to the capability settles and every render
\* that setCursorPosition asks for happens.
SpecFair ==
    /\ Spec
    /\ WF_vars(LayoutEffect)
    /\ WF_vars(ResolveWired)
    /\ WF_vars(ResolveInjected \/ Reject)

----------------------------------------------------------------------------
(* The form (App): the draft auto-save and handleDownloadPdf.  Time is      *)
(* counted in minutes.                                                      *)

\* setInterval(..., 2 * 60 * 1000), in minutes
Interval == 2

\* What a file the user attaches can be: an image the browser decodes, a
\* readable file that is no image (a PDF attendance sheet), a file that
\* FileReader cannot read.
FileKinds == {"image", "document", "unreadable"}

RECURSIVE FilesOfLen(_)
FilesOfLen(n) ==
    IF n = 0 THEN {<<>>}
    ELSE {Append(f, k) : f \in FilesOfLen(n - 1), k \in FileKinds}

FileLists == UNION {FilesOfLen(n) : n \in 0..MaxFiles}

\* The form after its mount effects: read-only or not (the URL), with or
\* without a draft in localStorage, no file (file inputs are not restored).
InitApp ==
    /\ isReadOnly \in BOOLEAN
    /\ stored \in {Null, 0}
    /\ changes = 0
    /\ timer = 0
    /\ sinceWrite = 0
    /\ attachments = <<>>
    /\ isGeneratingPdf = FALSE
    /\ pdf = NoPdf
    /\ value = <<>>
    /\ readOnly = isReadOnly
    /\ onAutoCorrect = autoCorrectProp(isReadOnly)
    /\ budget = 0
    /\ InitField

\* A minute passes.  The interval's callback runs when its delay has elapsed.
Tick ==
    /\ sinceWrite < MaxMinutes
    /\ isReadOnly \/ timer < Interval
    /\ timer' = IF isReadOnly THEN timer ELSE timer + 1
    /\ sinceWrite' = sinceWrite + 1
    /\ UNCHANGED <<fieldVars, isReadOnly, changes, stored, attachments,
                   isGeneratingPdf, pdf>>

\* handleSaveDraft: localStorage.setItem succeeds or throws (storage full).
handleSaveDraft(written) ==
    /\ stored' = IF written THEN changes ELSE stored
    /\ sinceWrite' = 0

\* The interval's callback: handleSaveDraft(false), and the next period starts.
AutoSave ==
    /\ ~isReadOnly
    /\ timer = Interval
    /\ \E written \in BOOLEAN : handleSaveDraft(written)
    /\ timer' = 0
    /\ UNCHANGED <<fieldVars, isReadOnly, changes, attachments, isGeneratingPdf, pdf>>

\* The Save Draft button: handleSaveDraft(true).
SaveDraft ==
    /\ ~isReadOnly
    /\ \E written \in BOOLEAN : handleSaveDraft(written)
    /\ UNCHANGED <<fieldVars, isReadOnly, changes, timer, attachments,
                   isGeneratingPdf, pdf>>

\* setFormData gives a new formData, so a new handleSaveDraft, so the
\* auto-save effect runs again: clearInterval, then setInterval.
ChangeForm ==
    /\ ~isReadOnly
    /\ changes < MaxChanges
    /\ changes' = changes + 1
    /\ timer' = 0
    /\ UNCHANGED <<fieldVars, isReadOnly, stored, sinceWrite, attachments,
                   isGeneratingPdf, pdf>>

\* handleFileChange: the user chooses files (a change of formData too).
AttachFile ==
    /\ ~isReadOnly
    /\ changes < MaxChanges
    /\ \E files \in FileLists \ {attachments} : attachments' = files
    /\ changes' = changes + 1
    /\ timer' = 0
    /\ UNCHANGED <<fieldVars, isReadOnly, stored, sinceWrite, isGeneratingPdf, pdf>>

\* addImageToPdf goes on to the next file, or handleDownloadPdf to its end.
nextFile(run, errorFields) ==
    IF run.index < Len(run.files)
    THEN [run EXCEPT !.pc = "reading", !.index = run.index + 1,
                     !.errorFields = errorFields, !.image = "none"]
    ELSE [run EXCEPT !.pc = "finishing", !.errorFields = errorFields,
                     !.image = "none"]

\* The Download as PDF button (disabled while isGeneratingPdf): handleDownloadPdf
\* up to its first await.
HandleDownloadPdf ==
    /\ ~isGeneratingPdf
    /\ pdf.pc = "idle"
    /\ isGeneratingPdf' = TRUE
    /\ pdf' = nextFile([NoPdf EXCEPT !.files = attachments], 0)
    /\ UNCHANGED <<fieldVars, isReadOnly, changes, stored, timer, sinceWrite,
                   attachments>>

\* fileToBase64 resolves (reader.onload); img.src is set and the run awaits
\* the promise that only img.onload resolves.
ReaderLoaded ==
    /\ pdf.pc = "reading"
    /\ pdf.files[pdf.index] # "unreadable"
    /\ pdf' = [pdf EXCEPT !.pc = "loading", !.image = "pending"]
    /\ UNCHANGED <<fieldVars, isReadOnly, changes, stored, timer, sinceWrite,
                   attachments, isGeneratingPdf>>

\* fileToBase64 rejects (reader.onerror): the catch adds an error field.
ReaderFailed ==
    /\ pdf.pc = "reading"
    /\ pdf.files[pdf.index] = "unreadable"
    /\ pdf' = nextFile(pdf, pdf.errorFields + 1)
    /\ UNCHANGED <<fieldVars, isReadOnly, changes, stored, timer, sinceWrite,
                   attachments, isGeneratingPdf>>

\* img.onload: the image is added, or doc.addImage throws and the catch adds
\* an error field.
ImageLoaded ==
    /\ pdf.pc = "loading"
    /\ pdf.image = "pending"
    /\ pdf.files[pdf.index] = "image"
    /\ \E added \in BOOLEAN :
           pdf' = nextFile(pdf, pdf.errorFields + (IF added THEN 0 ELSE 1))
    /\ UNCHANGED <<fieldVars, isReadOnly, changes, stored, timer, sinceWrite,
                   attachments, isGeneratingPdf>>

\* The image's error event: img.onerror is not set, nothing runs, and the
\* promise of the await is not settled.
ImageFailed ==
    /\ pdf.pc = "loading"
    /\ pdf.image = "pending"
    /\ pdf.files[pdf.index] # "image"
    /\ pdf' = [pdf EXCEPT !.image = "broken"]
    /\ UNCHANGED <<fieldVars, isReadOnly, changes, stored, timer, sinceWrite,
                   attachments, isGeneratingPdf>>

\* After the last addImageToPdf: doc.save (or the outer catch), then finally.
FinishPdf ==
    /\ pdf.pc = "finishing"
    /\ isGeneratingPdf' = FALSE
    /\ pdf' = [pdf EXCEPT !.pc = "idle"]
    /\ UNCHANGED <<fieldVars, isReadOnly, changes, stored, timer, sinceWrite,
                   attachments>>

NextApp ==
    \/ Tick
    \/ AutoSave
    \/ SaveDraft
    \/ ChangeForm
    \/ AttachFile
    \/ HandleDownloadPdf
    \/ ReaderLoaded
    \/ ReaderFailed
    \/ ImageLoaded
    \/ ImageFailed
    \/ FinishPdf

SpecApp == InitApp /\ [][NextApp]_vars

\* The form when every event the browser owes to a run of handleDownloadPdf
\* is delivered and every continuation runs.
SpecAppFair ==
    /\ SpecApp
    /\ WF_vars(ReaderLoaded)
    /\ WF_vars(ReaderFailed)
    /\ WF_vars(ImageLoaded)
    /\ WF_vars(ImageFailed)
    /\ WF_vars(FinishPdf)

----------------------------------------------------------------------------
(* Vocabulary of the properties.                                            *)

startsWith(s, p) == Len(s) >= Len(p) /\ SubSeq(s, 1, Len(p)) = p

isBlank(line) == Len(trim(line)) = 0
isNonBlank(line) == ~isBlank(line)

\* The non-blank lines of a text, in buffer order.
nonBlankLines(text) == SelectSeq(split(text), isNonBlank)

\* The k-th non-blank line begins with "k. ", for every k.
numberedInOrder(text) ==
    LET nb == nonBlankLines(text) IN
    \A k \in 1..Len(nb) : startsWith(nb[k], toString(k) \o <<".", " ">>)

\* A list of exactly n items: n lines, none blank, numbered 1 through n.
isListOf(text, n) ==
    /\ Len(split(text)) = n
    /\ Len(nonBlankLines(text)) = n
    /\ numberedInOrder(text)

\* A buffer holding a nine-item numbered list, as the Reformatter leaves it.
isNineItemList(text) ==
    isListOf(text, 9) /\ reformatTextToNumberedList(text) = text

\* The text with a line break inserted at offset p.
withBreakAt(text, p) ==
    SubSeq(text, 1, p) \o <<NL>> \o SubSeq(text, p + 1, Len(text))

\* 0-based offset of the start of the line with 0-based index i.
RECURSIVE offsetOfLine(_, _)
offsetOfLine(text, i) ==
    IF i = 0 THEN 0
    ELSE LET b == indexOfNL(text) IN
         b + offsetOfLine(SubSeq(text, b + 1, Len(text)), i - 1)

AfterKeyDown == last.op = "handleKeyDown"
AfterBlur == last.op = "handleBlur"
AfterResolve == last.op = "resolve"
AfterReject == last.op = "reject"

StackedMarkers == <<"*", " ", "1", ".", " ", "a">>
MixedMarkers == <<"*", " ", "a", NL, NL, "b", NL, "3", ".", " ", "c">>
MixedMarkersNumbered == <<"1", ".", " ", "a", NL, NL, "2", ".", " ", "b", NL, "3", ".", " ", "c">>
TwoItems == <<"1", ".", " ", "a", NL, "2", ".", " ", "b">>
TwoItemsSplit == <<"1", ".", " ", "a", NL, NL, "2", ".", " ", "b">>
ThreeItems == <<"1", ".", " ", "a", NL, "2", ".", " ", NL, "3", ".", " ", "b">>

----------------------------------------------------------------------------
(* C1: the Reformatter is idempotent: reformatting the buffer a second     *)
(* time gives what reformatting it once gives, for every buffer, with       *)
(* blank lines, marked lines, stacked markers and marker-only lines.        *)
C1_Idempotent ==
    reformatTextToNumberedList(reformatTextToNumberedList(value))
        = reformatTextToNumberedList(value)

\* a blur has reformatted a line with two stacked markers
C1_Witness ==
    /\ AfterBlur
    /\ last.currentValue = StackedMarkers
    /\ value = <<"1", ".", " ", "1", ".", " ", "a">>

(* C2: in the Reformatter's output the k-th non-blank line begins with     *)
(* "k. ", the output has as many non-blank lines as the input (blank lines  *)
(* do not advance the counter), and "* a\n\nb\n3. c" becomes                *)
(* "1. a\n\n2. b\n3. c".                                                    *)
C2_ContiguousNumbering ==
    LET out == reformatTextToNumberedList(value) IN
    /\ numberedInOrder(out)
    /\ Len(nonBlankLines(out)) = Len(nonBlankLines(value))
    /\ value = MixedMarkers => out = MixedMarkersNumbered

\* a blur has renumbered the specification's example
C2_Witness ==
    /\ AfterBlur
    /\ last.currentValue = MixedMarkers
    /\ value = MixedMarkersNumbered

(* C3, as stated: Enter with the cursor after "a" in "1. a\n2. b" commits  *)
(* "1. a\n2. \n3. b" and leaves the pending cursor after "2. " (offset 8).  *)
C3_NewNumberedItem ==
    (AfterKeyDown /\ last.currentValue = TwoItems /\ last.selectionStart = 4)
        => (value = ThreeItems /\ cursorPosition = 8)

(* C3, amended: Enter with the cursor at the end of an item of a numbered  *)
(* list inserts an empty line without a number below it and leaves the      *)
(* other lines as they are; the pending cursor is at the start of the new   *)
(* line.  From "1. a\n2. b" with the cursor after "a": "1. a\n\n2. b" and   *)
(* offset 5.                                                                *)
C3_NewBlankLine ==
    AfterKeyDown =>
      LET cv == last.currentValue
          p == last.selectionStart
          line == split(cv)[currentLineIndex(cv, p) + 1]
          atEndOfItem == /\ isNonBlank(line)
                         /\ (p = Len(cv) \/ cv[p + 1] = NL)
      IN  /\ (reformatTextToNumberedList(cv) = cv /\ atEndOfItem)
                => (value = withBreakAt(cv, p) /\ cursorPosition = p + 1)
          /\ (cv = TwoItems /\ p = 4)
                => (value = TwoItemsSplit /\ cursorPosition = 5)

\* Enter was pressed after "a" in "1. a\n2. b"
C3_Witness ==
    /\ AfterKeyDown
    /\ last.currentValue = TwoItems
    /\ last.selectionStart = 4
    /\ value = TwoItemsSplit
    /\ cursorPosition = 5

\* Enter on item 9 of a nine-item list, with the cursor at offset p
OnItemNine ==
    /\ AfterKeyDown
    /\ isNineItemList(last.currentValue)
    /\ last.selectionStart >= offsetOfLine(last.currentValue, 8)

\* the buffer is numbered 1 through 10, the cursor is right after "10. "
TenItemsCursorAfterPrefix ==
    /\ isListOf(value, 10)
    /\ startsWith(split(value)[10], <<"1", "0", ".", " ">>)
    /\ cursorPosition = offsetOfLine(value, 9) + 4

(* C4, as stated: Enter with the cursor anywhere on item 9 of a nine-item  *)
(* list commits a buffer numbered 1 through 10 with the pending cursor      *)
(* right after the four characters of "10. ".                               *)
C4_TenItemsAnywhere == OnItemNine => TenItemsCursorAfterPrefix

(* C4, amended: that holds when the cursor is inside item 9, after its     *)
(* first character and with non-blank text of the item after it.  With the  *)
(* cursor at the end of item 9 (or with only blanks after it) the buffer    *)
(* keeps nine items, followed by an empty line that has no number, and the  *)
(* pending cursor is at the start of that line; with the cursor at the      *)
(* start of item 9 the empty line is put above item 9, which keeps its      *)
(* number, and the pending cursor is right after "9. ".                     *)
C4_TenItemsInside ==
    OnItemNine =>
      LET cv == last.currentValue
          p == last.selectionStart
          start == offsetOfLine(cv, 8)
          tail == SubSeq(cv, p + 1, Len(cv))
      IN  /\ (p > start /\ isNonBlank(tail)) => TenItemsCursorAfterPrefix
          /\ (p > start /\ isBlank(tail))
                => /\ Len(nonBlankLines(value)) = 9
                   /\ numberedInOrder(value)
                   /\ Len(split(value)) = 10
                   /\ split(value)[10] = <<>>
                   /\ cursorPosition = Len(value)
          /\ p = start
                => /\ value = withBreakAt(cv, p)
                   /\ cursorPosition = start + 1 + 3

\* Enter was pressed inside item 9 and the cursor is after "10. "
C4_Witness ==
    /\ OnItemNine
    /\ last.selectionStart > offsetOfLine(last.currentValue, 8)
    /\ last.selectionStart < Len(last.currentValue)
    /\ TenItemsCursorAfterPrefix

(* C5: when a correction call resolves with a text that differs from the   *)
(* buffer captured at its blur, the buffer right after the resolution is    *)
(* the returned text, character for character.                              *)
C5_ReturnedTextCommitted ==
    (AfterResolve /\ last.correctedValue # last.currentValue)
        => value = last.correctedValue

\* a returned text that is no numbered list was committed as it is
C5_Witness ==
    /\ AfterResolve
    /\ last.correctedValue # last.currentValue
    /\ last.correctedValue # last.formattedValue
    /\ reformatTextToNumberedList(last.correctedValue) # last.correctedValue
    /\ value = last.correctedValue

(* C6, as stated: after a failed correction call the buffer is the         *)
(* Reformatter applied to the buffer captured at the blur and the field is  *)
(* Idle, whatever happened between the blur and the failure.                *)
C6_FailureCommitsFormatted ==
    AfterReject =>
        /\ value = reformatTextToNumberedList(last.currentValue)
        /\ ~isCorrecting

(* C6, amended: after a failed correction call the field is Idle; the      *)
(* buffer is the Reformatter applied to the buffer captured at the blur     *)
(* when that buffer was not already in reformatted form, and otherwise the  *)
(* failure commits nothing: the buffer stays what it was when the call      *)
(* failed, changes made since the blur included.                            *)
C6_FailureFallsBack ==
    AfterReject =>
        /\ ~isCorrecting
        /\ last.currentValue # reformatTextToNumberedList(last.currentValue)
              => value = reformatTextToNumberedList(last.currentValue)
        /\ last.currentValue = reformatTextToNumberedList(last.currentValue)
              => value = last.before

\* a failure after the buffer changed: the reformatted captured text replaced it
C6_Witness ==
    /\ AfterReject
    /\ last.currentValue # last.formattedValue
    /\ last.before # last.currentValue
    /\ value = last.formattedValue
    /\ ~isCorrecting

(* C7: with no capability configured a blur is one synchronous step: the   *)
(* buffer becomes the Reformatter applied to the buffer before the blur,    *)
(* the capability is not invoked, no call is ever suspended and the         *)
(* Correcting flag stays false.                                             *)
C7_BlurWithoutCapability ==
    onAutoCorrect = Undefined =>
        /\ ~isCorrecting
        /\ calls = <<>>
        /\ AfterBlur =>
              /\ ~last.invoked
              /\ last.currentValue = last.before
              /\ value = reformatTextToNumberedList(last.before)

\* a blur without capability that rewrote the buffer
C7_Witness ==
    /\ onAutoCorrect = Undefined
    /\ AfterBlur
    /\ value # last.before
    /\ value = reformatTextToNumberedList(last.before)

(* C8: at most one correction call is outstanding: a blur while the field  *)
(* is Correcting starts no second call.                                     *)
C8_AtMostOneCall == Len(calls) <= 1

(* C9: the Correcting flag is true exactly when a correction call has been *)
(* invoked and has not settled.                                             *)
C9_FlagIffOutstanding == isCorrecting <=> (Len(calls) > 0)

(* C10: once the handling of a blur has settled (no capability, success or *)
(* failure) the buffer is a fixed point of the Reformatter.                 *)
C10_FormattedAfterBlur ==
    ((AfterBlur /\ ~last.invoked) \/ AfterResolve \/ AfterReject)
        => reformatTextToNumberedList(value) = value

\* The call the latest blur started, when it started one.
latestCall == calls[Len(calls)]

\* The number of times the capability has been called so far.
invocations == Len(calls) + settles

(* C11: a blur calls the capability exactly when a capability is           *)
(* configured, the field is editable and the Reformatter's output for the   *)
(* buffer is not blank; the call's argument is the reformatted text, not    *)
(* the raw buffer; a blur on an empty or whitespace-only buffer starts no   *)
(* call.                                                                    *)
C11_InvokedIffQualifying ==
    AfterBlur =>
        /\ last.invoked <=>
              /\ onAutoCorrect # Undefined
              /\ ~readOnly
              /\ isNonBlank(reformatTextToNumberedList(last.before))
        /\ last.invoked =>
              /\ isCorrecting
              /\ calls # <<>>
              /\ latestCall.currentValue = last.before
              /\ latestCall.text = reformatTextToNumberedList(last.before)
        /\ isBlank(last.before) =>
              /\ ~last.invoked
              /\ invocations < blurs
              /\ \A i \in 1..Len(calls) : isNonBlank(calls[i].currentValue)

\* a blur has called the capability with a text that differs from the buffer
C11_Witness ==
    /\ AfterBlur
    /\ last.invoked
    /\ latestCall.text # last.before
    /\ latestCall.text = reformatTextToNumberedList(last.before)

(* C12: with every call settling, a field that is Correcting is eventually *)
(* Idle again, and an Idle field becomes Correcting only by a blur that     *)
(* calls the capability.                                                    *)
C12_EventuallyIdle ==
    /\ isCorrecting ~> ~isCorrecting
    /\ [][(~isCorrecting /\ isCorrecting')
             => (last'.op = "handleBlur" /\ last'.invoked)]_vars

\* the only outstanding call has settled and the field is Idle
C12_Witness ==
    /\ AfterResolve \/ AfterReject
    /\ ~isCorrecting
    /\ calls = <<>>
    /\ blurs = 1

(* C13: the capability is never called again on its own: the number of     *)
(* calls never exceeds the number of blurs, a failure starts no call, and   *)
(* a failure leaves the field Idle, with no error state.                    *)
C13_NeverRetried ==
    /\ invocations <= blurs
    /\ AfterReject => (~isCorrecting /\ settles <= blurs - Len(calls))
    /\ (AfterReject /\ blurs = 1) => (calls = <<>> /\ invocations = 1)

\* the call of the only blur has failed and nothing is outstanding
C13_Witness ==
    /\ AfterReject
    /\ blurs = 1
    /\ invocations = 1
    /\ calls = <<>>
    /\ ~isCorrecting

\* The lines of the buffer and of the Reformatter's output for it.
inLines == split(value)
outLines == split(reformatTextToNumberedList(value))

\* A line of spaces and tabs, the line of a buffer, the text a blur rewrote it to.
SpaceLine == <<" ">>
SpacedLines == <<" ", "a", " ", NL, "\t", NL, "1", "2", ".", " ", "b">>
SpacedLinesNumbered == <<"1", ".", " ", "a", NL, NL, "2", ".", " ", "b">>

(* C14: the Reformatter's output has as many lines as its input, and its   *)
(* i-th line is blank exactly when the i-th line of the input is blank      *)
(* (empty or made of white space only).                                     *)
C14_BlankLinesStay ==
    /\ Len(outLines) = Len(inLines)
    /\ \A i \in 1..Len(inLines) : isBlank(outLines[i]) <=> isBlank(inLines[i])

\* a blur has reformatted a buffer with a blank line between two items
C14_Witness ==
    /\ AfterBlur
    /\ last.before = SpacedLines
    /\ value = SpacedLinesNumbered
    /\ Len(split(value)) = 3

(* C15, as stated: every blank line of the input, one made only of spaces  *)
(* or tabs included, is at the same index of the output unchanged,          *)
(* character for character.                                                 *)
C15_BlankVerbatim ==
    /\ Len(outLines) = Len(inLines)
    /\ \A i \in 1..Len(inLines) : isBlank(inLines[i]) => outLines[i] = inLines[i]

(* C15, amended: every blank line of the input is an empty line at the     *)
(* same index of the output, without a numeral: an empty line is unchanged  *)
(* and a line made only of spaces or tabs loses its white space.            *)
C15_BlankBecomesEmpty ==
    /\ Len(outLines) = Len(inLines)
    /\ \A i \in 1..Len(inLines) : isBlank(inLines[i]) => outLines[i] = <<>>

\* a blur has emptied a line that held white space only
C15_Witness ==
    /\ AfterBlur
    /\ \E i \in 1..Len(split(last.before)) :
          /\ isBlank(split(last.before)[i])
          /\ split(last.before)[i] # <<>>
          /\ Len(split(value)) >= i
          /\ split(value)[i] = <<>>

\* Length of a leading marker as the specification defines one: digits, a
\* dot and a space, or a star and a space, or a dash and a space.
markerWithSpace(t) ==
    LET d == leading(t, Digits) IN
    IF d > 0 /\ Len(t) > d + 1 /\ t[d + 1] = "." /\ t[d + 2] = " " THEN d + 2
    ELSE IF Len(t) > 1 /\ t[1] \in {"*", "-"} /\ t[2] = " " THEN 2
    ELSE 0

\* The trimmed line without that marker.
withoutMarker(line) ==
    LET t == trim(line) IN SubSeq(t, markerWithSpace(t) + 1, Len(t))

\* 1-based position of line i among the non-blank lines.
ordinal(lines, i) == Cardinality({j \in 1..i : isNonBlank(lines[j])})

(* C16: the output line of a non-blank input line is its ordinal "k. "     *)
(* followed by the trimmed line without one leading marker (digits, dot and *)
(* space; star and space; dash and space) and otherwise unchanged: a line   *)
(* "3.14", "-5" or "*bold" keeps all of its text.                           *)
C16_OnlyMarkerRemoved ==
    /\ Len(outLines) = Len(inLines)
    /\ \A i \in 1..Len(inLines) :
          isNonBlank(inLines[i]) =>
              outLines[i] = numberedLine(ordinal(inLines, i), withoutMarker(inLines[i]))

\* The number of line breaks before offset p of a text.
breaksBefore(text, p) == Cardinality({i \in 1..p : text[i] = NL})

\* Length of the numeral prefix "N. " of a line, 0 when the line is blank.
numeralPrefix(line) ==
    IF isBlank(line) THEN 0 ELSE leading(line, Digits) + 2

(* C17: Enter on an editable field commits the Reformatter's output for    *)
(* the buffer with one line break inserted at the cursor offset, for every  *)
(* buffer and offset, on every Enter, and in the step that sets the         *)
(* pending cursor.                                                          *)
C17_EnterCommitsReformatted ==
    /\ AfterKeyDown =>
          /\ ~readOnly
          /\ last.currentValue = last.before
          /\ value = reformatTextToNumberedList(
                         withBreakAt(last.before, last.selectionStart))
          /\ cursorPosition # Null
    /\ cursorPosition # Null => AfterKeyDown

\* Enter inside a line has split it into two numbered items
C17_Witness ==
    /\ AfterKeyDown
    /\ last.selectionStart > 0
    /\ last.selectionStart < Len(last.before)
    /\ last.before[last.selectionStart] # NL
    /\ last.before[last.selectionStart + 1] # NL
    /\ value # withBreakAt(last.before, last.selectionStart)
    /\ Len(nonBlankLines(value)) = Len(nonBlankLines(last.before)) + 1
    /\ cursorPosition # Null

(* C18: after Enter with the cursor on line L (the number of line breaks   *)
(* before it), the pending cursor is the offset, in the committed buffer,   *)
(* of the start of line L+1 plus the length of that line's "N. " prefix     *)
(* when it has one; on a blank line L+1 it is the start of the line.        *)
C18_CursorAfterPrefix ==
    AfterKeyDown =>
        LET L == breaksBefore(last.before, last.selectionStart)
            lines == split(value)
        IN  /\ Len(lines) > L + 1
            /\ cursorPosition
                 = offsetOfLine(value, L + 1) + numeralPrefix(lines[L + 2])
            /\ isNonBlank(lines[L + 2]) =>
                 startsWith(SubSeq(value, offsetOfLine(value, L + 1) + 1, Len(value)),
                            toString(ordinal(lines, L + 2)) \o <<".", " ">>)

\* Enter moved the cursor to a numbered line whose start the rewrite shifted
C18_Witness ==
    /\ AfterKeyDown
    /\ LET L == breaksBefore(last.before, last.selectionStart)
           lines == split(value)
       IN  /\ Len(lines) > L + 1
           /\ isNonBlank(lines[L + 2])
           /\ offsetOfLine(value, L + 1) # last.selectionStart + 1
           /\ cursorPosition = offsetOfLine(value, L + 1) + numeralPrefix(lines[L + 2])

(* C19: the pending cursor is a one-shot register: only the Enter handler  *)
(* sets it; while it is set the only step is the render that applies it to  *)
(* the selection and clears it, so no Enter, blur commit or correction      *)
(* commit rewrites the buffer before it is applied; blur handling and       *)
(* correction completion never set it.                                      *)
C19_OneShotCursor ==
    [][ /\ (cursorPosition' # Null /\ cursorPosition' # cursorPosition)
            => (cursorPosition = Null /\ last'.op = "handleKeyDown")
        /\ cursorPosition # Null
            => /\ last'.op = "layoutEffect"
               /\ last'.selectionStart = cursorPosition
               /\ cursorPosition' = Null
               /\ value' = value
        /\ last'.op \in {"handleBlur", "resolve", "reject"}
            => (cursorPosition = Null /\ cursorPosition' = Null) ]_vars

\* the render after an Enter has applied the pending cursor and cleared it
C19_Witness ==
    /\ last.op = "layoutEffect"
    /\ enters = 1
    /\ last.selectionStart > 0
    /\ cursorPosition = Null
    /\ focused

(* C20, as stated: the blur commits the Reformatter's result before the    *)
(* correction call is awaited, so that right after a blur that calls the    *)
(* capability the buffer is the reformatted text, not the raw text.         *)
C20_FormattedWhileCorrecting ==
    (AfterBlur /\ last.invoked)
        => value = reformatTextToNumberedList(last.before)

(* C20, amended: the blur computes the Reformatter's result first and      *)
(* calls the capability with it, and commits nothing before the call        *)
(* settles: right after a blur that calls the capability the buffer is      *)
(* still the raw text.                                                      *)
C20_RawWhileCorrecting ==
    (AfterBlur /\ last.invoked)
        => /\ value = last.before
           /\ calls # <<>>
           /\ latestCall.formattedValue = reformatTextToNumberedList(last.before)
           /\ latestCall.text = latestCall.formattedValue

\* a call is awaited while the buffer still holds text the Reformatter changes
C20_Witness ==
    /\ AfterBlur
    /\ last.invoked
    /\ isCorrecting
    /\ value = last.before
    /\ value # reformatTextToNumberedList(value)

(* C21: whether a returned text is committed depends on the buffer         *)
(* captured at the blur and on the returned text only: a returned text      *)
(* that differs from the captured buffer replaces the buffer whatever was   *)
(* typed since the blur; a returned text equal to the captured buffer is    *)
(* not committed and what was typed since stays.                            *)
C21_LastWriterWins ==
    AfterResolve =>
        /\ last.correctedValue # last.currentValue => value = last.correctedValue
        /\ last.correctedValue = last.currentValue => value = last.before

\* a returned text has replaced a buffer that changed after the blur
C21_Witness ==
    /\ AfterResolve
    /\ last.before # last.currentValue
    /\ last.correctedValue # last.currentValue
    /\ last.correctedValue # last.before
    /\ value = last.correctedValue

\* What the provider does when it fails or answers nothing usable.
FailedOutcomes == {Throws, Answers(<<>>), Answers(<<" ">>), Answers(<<NL>>)}

\* The wired capability gives back its input when the provider fails, it
\* never rejects, and no handler of the field runs a failure branch.
neverFailsTowardsField ==
    onAutoCorrect = Wired =>
        /\ \A i \in 1..Len(calls) : \A outcome \in FailedOutcomes :
              correctGrammarAndSpelling(calls[i].text, outcome) = calls[i].text
        /\ ~AfterReject

\* The wired capability has resolved with the text it was called with.
ResolvedWithInput ==
    /\ onAutoCorrect = Wired
    /\ AfterResolve
    /\ last.correctedValue = last.formattedValue

(* C22, as stated: the wired capability never fails towards the field, and *)
(* when it resolves with its input the buffer is the locally-reformatted    *)
(* text.                                                                    *)
C22_DegradesToFormatted ==
    /\ neverFailsTowardsField
    /\ ResolvedWithInput => value = last.formattedValue

(* C22, amended: the wired capability never fails towards the field; when  *)
(* it resolves with its input, the buffer is the locally-reformatted text   *)
(* if the buffer captured at the blur differed from it, and otherwise the   *)
(* buffer stays what it was at resolution, changes since the blur included. *)
C22_DegradesLikeFailure ==
    /\ neverFailsTowardsField
    /\ ResolvedWithInput =>
          value = (IF last.currentValue # last.formattedValue
                   THEN last.formattedValue ELSE last.before)

\* the wired capability resolved with its input and the buffer was rewritten
C22_Witness ==
    /\ ResolvedWithInput
    /\ last.currentValue # last.formattedValue
    /\ value = last.formattedValue

(* C23: the fallback branch of the Enter handler is never taken: the       *)
(* committed buffer has one line more than the old one and has a line at    *)
(* index previousLineIndex + 1, for every buffer and cursor offset.         *)
C23_FallbackUnreachable ==
    AfterKeyDown =>
        /\ ~usesFallback(last.before, last.selectionStart)
        /\ textWithNewline(last.before, last.selectionStart) # <<>>
        /\ Len(split(value)) = Len(split(last.before)) + 1
        /\ Len(split(value)) > breaksBefore(last.before, last.selectionStart) + 1

\* Enter at the end of the last line: the target line is the last line
C23_Witness ==
    /\ AfterKeyDown
    /\ last.before # <<>>
    /\ last.selectionStart = Len(last.before)
    /\ Len(split(value)) = breaksBefore(last.before, last.selectionStart) + 2
    /\ cursorPosition = Len(value)

\* Offset p of the text is the start of a blank line or follows the "N. " of a line.
atLineEntry(text, p) ==
    \E i \in 0..(Len(split(text)) - 1) :
        LET line == split(text)[i + 1]
            d == leading(line, Digits)
        IN  IF isBlank(line) THEN p = offsetOfLine(text, i)
            ELSE /\ d > 0
                 /\ startsWith(SubSeq(line, d + 1, Len(line)), <<".", " ">>)
                 /\ p = offsetOfLine(text, i) + d + 2

(* C24: a pending cursor is an offset of the committed buffer, between 0   *)
(* and its length, at the start of a blank line or right after the whole    *)
(* "N. " prefix of a line, never inside a prefix.                           *)
C24_CursorValid ==
    cursorPosition # Null =>
        /\ 0 <= cursorPosition
        /\ cursorPosition <= Len(value)
        /\ atLineEntry(value, cursorPosition)

\* the pending cursor follows the prefix of an item inside the buffer
C24_Witness ==
    /\ cursorPosition # Null
    /\ cursorPosition > 2
    /\ cursorPosition < Len(value)
    /\ value[cursorPosition] = " "
    /\ value[cursorPosition - 1] = "."
    /\ value[cursorPosition + 1] \notin WhiteSpace

\* An Enter keystroke or a blur has reached a read-only field.
EventOnReadOnly == readOnly /\ last.op \in {"keydown", "blur"}

(* C25: an Enter keystroke or a blur on a read-only field leaves the       *)
(* buffer, the pending cursor and the Correcting flag as they were and      *)
(* calls no capability; a read-only form passes no capability to a field.   *)
C25_ReadOnlyFrame ==
    /\ EventOnReadOnly =>
          /\ value = last.before
          /\ cursorPosition = Null
    /\ readOnly =>
          /\ value \in SeedTexts
          /\ cursorPosition = Null
          /\ ~isCorrecting
          /\ calls = <<>>
          /\ invocations = 0
          /\ onAutoCorrect = Undefined
    /\ autoCorrectProp(TRUE) = Undefined

\* a blur left a read-only field whose text the Reformatter would change
C25_Witness ==
    /\ EventOnReadOnly
    /\ last.op = "blur"
    /\ enters > 0
    /\ value = last.before
    /\ reformatTextToNumberedList(value) # value

(* C26: while the form is not read-only, every 2-minute window holds a     *)
(* write of the draft: the time since handleSaveDraft last ran never        *)
(* exceeds the interval, however often the form data changes.               *)
C26_SavedEveryInterval ==
    ~isReadOnly => sinceWrite <= Interval

(* C27: every run of handleDownloadPdf ends and resets isGeneratingPdf,    *)
(* also when an attachment cannot be read or is no image.                   *)
C27_PdfRunEnds ==
    isGeneratingPdf ~> ~isGeneratingPdf

====
